---- MODULE Spec2Model ----
(***************************************************************************)
(* DIT-Monitor-Pro: the telemetry simulation (utils/mockData) and the      *)
(* threshold alerting of the App component.                                *)
(*                                                                         *)
(* Numbers: the source computes with JavaScript doubles; the model uses    *)
(* integers (percent points, seconds).  Math.random() is an input drawn    *)
(* from a named finite set at every call site.  Date.now() is the variable *)
(* now, advanced by the 3 second interval.                                 *)
(*                                                                         *)
(* React: a state update re-renders the component; the alert monitoring    *)
(* effect of a render runs after that render when one of its dependencies  *)
(* changed, with the values of that render.  effectPending says that such  *)
(* a run is outstanding and what caused the render: "event" for a click or *)
(* an input change, whose effect React runs before it handles any other    *)
(* event, "timer" for the interval callback and the mount, whose effect    *)
(* React defers to a later task.  React runs an outstanding effect before  *)
(* it renders the next update.  An update that does not write activeAlerts *)
(* (the tick, a configuration edit) commutes with the outstanding effect   *)
(* and is modelled as waiting for it.  A dismissal writes activeAlerts:    *)
(* when its click is handled while a deferred effect is outstanding, the   *)
(* handler's updates are queued first and the effect's merge, computed     *)
(* from the values of the earlier render, is queued behind them (action    *)
(* DismissBeforeEffect).                                                   *)
(***************************************************************************)
EXTENDS Integers, Sequences, FiniteSets, TLC

VARIABLES devices, activeAlerts, dismissedAlertIds, cpuThreshold,
          ramThreshold, alertDuration, mounted, effectPending, now, keyCheck,
          calc, gemini

vars == <<devices, activeAlerts, dismissedAlertIds, cpuThreshold,
          ramThreshold, alertDuration, mounted, effectPending, now, keyCheck,
          calc, gemini>>

(***************************************************************************)
(* Bounds of the model.                                                    *)
(***************************************************************************)
\* devices of the fleet (App creates 16)
FleetSize == 1
\* calls of getSystemInsights the insights panel starts
MaxFetches == 3
\* samples backfilled per device (createInitialDevices backfills 20)
HistoryLen == 2
\* ticks of the 3 second interval
MaxTicks == 2

\* values an operator types into the threshold inputs
ThresholdInputs == {40, 90}
\* values an operator types into the duration input
DurationInputs == {3, 6, 60}

\* Math.random() * 40 + 20, Math.random() * 50 + 30, ... of generateMetricPoint
SeedDraws == {[cpu |-> 40, ram |-> 30, disk |-> 65, network |-> 20]}
\* drift() of generateMetricPoint, once per field: (Math.random() - 0.5) * 10
DriftDraws == [cpu : {-4, 4}, ram : {-4, 4}, disk : {0}, network : {0}]
\* Math.random() of the status roll, in 1/10000
RollDraws == {500, 5000, 9900, 9960, 9995}
\* Math.random() of the initial status, in 1/10000
InitialStatusDraws == {5000, 9000}
\* Math.floor(Math.random() * 4) of the device type
TypeDraws == {0}
\* Math.floor(Math.random() * LOCATIONS.length)
LocationDraws == {0}
\* Math.floor(Math.random() * 254), twice, of the ip
IpDraws == {<<10, 20>>}

(***************************************************************************)
(* types.ts                                                                *)
(***************************************************************************)
DeviceStatus == [ONLINE |-> "ONLINE", OFFLINE |-> "OFFLINE",
                 WARNING |-> "WARNING", ERROR |-> "ERROR"]

DeviceType == <<"SERVER", "ROUTER", "DATABASE", "IOT">>

MetricKinds == {"CPU", "RAM"}

(***************************************************************************)
(* utils/mockData                                                          *)
(***************************************************************************)
DEVICE_NAMES == <<"US-WEST-SRV-01", "EU-CENTRAL-DB-02", "AS-SOUTH-IOT-09",
                  "US-EAST-RTR-04", "CLOUD-API-GW", "CACHE-REDIS-01",
                  "NODE-WORKER-05", "LEGACY-MAINFRAME", "PROD-ELK-STACK",
                  "MESSAGING-RABBIT", "STORAGE-SAN-01", "FIREWALL-PFE">>

LOCATIONS == <<"San Francisco", "Frankfurt", "Mumbai", "New York", "Tokyo",
               "London">>

Min(a, b) == IF a < b THEN a ELSE b

Max(a, b) == IF a > b THEN a ELSE b

\* the absent argument of generateMetricPoint(prev?)
NoMetric == [timestamp |-> -1]

\* variant: the upper clamp Math.min(100, ...) is left out
generateMetricPointNoCeiling(prev, seed, drift, t) ==
    [timestamp |-> t,
     cpu     |-> Max(0, (IF prev = NoMetric THEN seed.cpu ELSE prev.cpu) + drift.cpu),
     ram     |-> Max(0, (IF prev = NoMetric THEN seed.ram ELSE prev.ram) + drift.ram),
     disk    |-> Max(0, (IF prev = NoMetric THEN seed.disk ELSE prev.disk) + drift.disk),
     network |-> Max(0, (IF prev = NoMetric THEN seed.network ELSE prev.network) + drift.network)]

\* generateMetricPoint(prev): seed is used when there is no previous sample
generateMetricPoint(prev, seed, drift, t) ==
    [timestamp |-> t,
     cpu     |-> Min(100, Max(0, (IF prev = NoMetric THEN seed.cpu ELSE prev.cpu) + drift.cpu)),
     ram     |-> Min(100, Max(0, (IF prev = NoMetric THEN seed.ram ELSE prev.ram) + drift.ram)),
     disk    |-> Min(100, Max(0, (IF prev = NoMetric THEN seed.disk ELSE prev.disk) + drift.disk)),
     network |-> Min(100, Max(0, (IF prev = NoMetric THEN seed.network ELSE prev.network) + drift.network))]

\* the random draws of one device of createInitialDevices
CreateDraws == [seed : SeedDraws, drift : [1..HistoryLen -> DriftDraws],
                type : TypeDraws, status : InitialStatusDraws,
                location : LocationDraws, ip : IpDraws]

\* the backfill loop of createInitialDevices: the first j samples
RECURSIVE InitialMetrics(_, _, _)
InitialMetrics(j, r, t) ==
    IF j = 0 THEN <<>>
    ELSE LET before == InitialMetrics(j - 1, r, t)
             lastMetric == IF j = 1 THEN NoMetric ELSE before[j - 1]
         IN  Append(before, generateMetricPoint(lastMetric, r.seed, r.drift[j], t))

\* variant: the id is numbered like the name, modulo the number of names
createInitialDevicesIdPerName(count, r, t) ==
    [k \in 1..count |->
        LET i == k - 1 IN
        [id       |-> "dev-" \o ToString(i % Len(DEVICE_NAMES)),
         name     |-> DEVICE_NAMES[(i % Len(DEVICE_NAMES)) + 1],
         type     |-> DeviceType[r[k].type + 1],
         status   |-> IF r[k].status > 8000 THEN DeviceStatus.WARNING
                                            ELSE DeviceStatus.ONLINE,
         location |-> LOCATIONS[r[k].location + 1],
         ip       |-> "192.168." \o ToString(r[k].ip[1]) \o "." \o ToString(r[k].ip[2]),
         metrics  |-> InitialMetrics(HistoryLen, r[k], t),
         lastUpdate |-> t]]

\* createInitialDevices(count); r[i] are the draws of device i (1-based here)
createInitialDevices(count, r, t) ==
    [k \in 1..count |->
        LET i == k - 1 IN
        [id       |-> "dev-" \o ToString(i),
         name     |-> DEVICE_NAMES[(i % Len(DEVICE_NAMES)) + 1],
         type     |-> DeviceType[r[k].type + 1],
         status   |-> IF r[k].status > 8000 THEN DeviceStatus.WARNING
                                            ELSE DeviceStatus.ONLINE,
         location |-> LOCATIONS[r[k].location + 1],
         ip       |-> "192.168." \o ToString(r[k].ip[1]) \o "." \o ToString(r[k].ip[2]),
         metrics  |-> InitialMetrics(HistoryLen, r[k], t),
         lastUpdate |-> t]]

\* the random draws of one device of updateDevices
UpdateDraws == [roll : RollDraws, seed : SeedDraws, drift : DriftDraws]

\* the status roll of updateDevices
RollStatus(status, roll) ==
    IF roll > 9800 THEN DeviceStatus.WARNING
    ELSE IF roll > 9950 THEN DeviceStatus.ERROR
    ELSE IF roll > 9990 THEN DeviceStatus.OFFLINE
    ELSE IF roll < 1000 /\ status # DeviceStatus.ONLINE THEN DeviceStatus.ONLINE
    ELSE status

\* variant: the new sample is appended and nothing is dropped
UpdatedMetricsKeepAll(metrics, newMetric) == Append(metrics, newMetric)

\* [...d.metrics.slice(1), newMetric]
UpdatedMetrics(metrics, newMetric) ==
    Append(SubSeq(metrics, 2, Len(metrics)), newMetric)

\* updateDevices(devices); r[k] are the draws of the k-th device
updateDevices(devs, r, t) ==
    [k \in 1..Len(devs) |->
        LET d == devs[k]
            prev == IF Len(d.metrics) = 0 THEN NoMetric ELSE d.metrics[Len(d.metrics)]
            newMetric == generateMetricPoint(prev, r[k].seed, r[k].drift, t)
        IN  [d EXCEPT !.status = RollStatus(d.status, r[k].roll),
                      !.metrics = UpdatedMetrics(d.metrics, newMetric),
                      !.lastUpdate = t]]

(***************************************************************************)
(* App: the alert monitoring effect                                        *)
(***************************************************************************)
\* Math.ceil(a / b) for b > 0
Ceil(a, b) == -((-a) \div b)

\* variant: the quotient is rounded down
PointsNeededFloor(duration) == Max(1, duration \div 3)

\* Math.max(1, Math.ceil(alertDuration / 3))
PointsNeeded(duration) == Max(1, Ceil(duration, 3))

\* variant: the history length check is dropped
HasEnoughHistoryAlways(metrics, duration) == TRUE

\* variant: any history that is not empty is long enough
HasEnoughHistoryNonEmpty(metrics, duration) == Len(metrics) > 0

\* !(device.metrics.length < pointsNeeded)
HasEnoughHistory(metrics, duration) == ~(Len(metrics) < PointsNeeded(duration))

\* device.metrics.slice(-pointsNeeded), for pointsNeeded >= 1
RecentMetrics(metrics, points) ==
    SubSeq(metrics, Max(1, Len(metrics) - points + 1), Len(metrics))

\* variant: a sample equal to the threshold counts as exceeding it
CpuExceededOrEqual(recent, threshold) ==
    \A k \in DOMAIN recent : recent[k].cpu >= threshold

\* recentMetrics.every(m => m.cpu > cpuThreshold)
CpuExceeded(recent, threshold) ==
    \A k \in DOMAIN recent : recent[k].cpu > threshold

\* recentMetrics.every(m => m.ram > ramThreshold)
RamExceeded(recent, threshold) ==
    \A k \in DOMAIN recent : recent[k].ram > threshold

\* variant: threshold and duration are joined without a separator
AlertIdNoSeparator(deviceId, kind, threshold, duration) ==
    deviceId \o "-" \o kind \o "-" \o ToString(threshold) \o ToString(duration)

\* variant: the key names the device and the metric only
AlertIdNoConfig(deviceId, kind, threshold, duration) ==
    deviceId \o "-" \o kind

\* `${device.id}-CPU-${cpuThreshold}-${alertDuration}` and its RAM twin
AlertId(deviceId, kind, threshold, duration) ==
    deviceId \o "-" \o kind \o "-" \o ToString(threshold) \o "-" \o ToString(duration)

\* variant: an alert carries the first sample of the window
DeviceAlertsWindowStart(device, dismissed, cpuT, ramT, duration, t) ==
    IF ~HasEnoughHistory(device.metrics, duration) THEN <<>>
    ELSE LET recent == RecentMetrics(device.metrics, PointsNeeded(duration))
             cpuId == AlertId(device.id, "CPU", cpuT, duration)
             ramId == AlertId(device.id, "RAM", ramT, duration)
             cpuAlerts ==
                 IF CpuExceeded(recent, cpuT) /\ cpuId \notin dismissed
                 THEN <<[id |-> cpuId, deviceId |-> device.id,
                         deviceName |-> device.name, metricType |-> "CPU",
                         value |-> recent[1].cpu, timestamp |-> t]>>
                 ELSE <<>>
             ramAlerts ==
                 IF RamExceeded(recent, ramT) /\ ramId \notin dismissed
                 THEN <<[id |-> ramId, deviceId |-> device.id,
                         deviceName |-> device.name, metricType |-> "RAM",
                         value |-> recent[1].ram, timestamp |-> t]>>
                 ELSE <<>>
         IN  cpuAlerts \o ramAlerts

\* variant: a device that is not ONLINE is skipped
DeviceAlertsOnlineOnly(device, dismissed, cpuT, ramT, duration, t) ==
    IF device.status # DeviceStatus.ONLINE THEN <<>>
    ELSE IF ~HasEnoughHistory(device.metrics, duration) THEN <<>>
    ELSE LET recent == RecentMetrics(device.metrics, PointsNeeded(duration))
             latestMetric == device.metrics[Len(device.metrics)]
             cpuId == AlertId(device.id, "CPU", cpuT, duration)
             ramId == AlertId(device.id, "RAM", ramT, duration)
             cpuAlerts ==
                 IF CpuExceeded(recent, cpuT) /\ cpuId \notin dismissed
                 THEN <<[id |-> cpuId, deviceId |-> device.id,
                         deviceName |-> device.name, metricType |-> "CPU",
                         value |-> latestMetric.cpu, timestamp |-> t]>>
                 ELSE <<>>
             ramAlerts ==
                 IF RamExceeded(recent, ramT) /\ ramId \notin dismissed
                 THEN <<[id |-> ramId, deviceId |-> device.id,
                         deviceName |-> device.name, metricType |-> "RAM",
                         value |-> latestMetric.ram, timestamp |-> t]>>
                 ELSE <<>>
         IN  cpuAlerts \o ramAlerts

\* the body of devices.forEach: what one device pushes onto newAlerts
DeviceAlerts(device, dismissed, cpuT, ramT, duration, t) ==
    IF ~HasEnoughHistory(device.metrics, duration) THEN <<>>
    ELSE LET recent == RecentMetrics(device.metrics, PointsNeeded(duration))
             latestMetric == device.metrics[Len(device.metrics)]
             cpuId == AlertId(device.id, "CPU", cpuT, duration)
             ramId == AlertId(device.id, "RAM", ramT, duration)
             cpuAlerts ==
                 IF CpuExceeded(recent, cpuT) /\ cpuId \notin dismissed
                 THEN <<[id |-> cpuId, deviceId |-> device.id,
                         deviceName |-> device.name, metricType |-> "CPU",
                         value |-> latestMetric.cpu, timestamp |-> t]>>
                 ELSE <<>>
             ramAlerts ==
                 IF RamExceeded(recent, ramT) /\ ramId \notin dismissed
                 THEN <<[id |-> ramId, deviceId |-> device.id,
                         deviceName |-> device.name, metricType |-> "RAM",
                         value |-> latestMetric.ram, timestamp |-> t]>>
                 ELSE <<>>
         IN  cpuAlerts \o ramAlerts

\* newAlerts after devices.forEach over the first n devices
RECURSIVE CollectAlerts(_, _, _, _, _, _, _)
CollectAlerts(devs, n, dismissed, cpuT, ramT, duration, t) ==
    IF n = 0 THEN <<>>
    ELSE CollectAlerts(devs, n - 1, dismissed, cpuT, ramT, duration, t)
         \o DeviceAlerts(devs[n], dismissed, cpuT, ramT, duration, t)

\* variant: the active set is replaced by the conditions that qualify now
MergeAlertsResolve(prev, new) == new

\* variant: an active alert is refreshed from the condition with its key
MergeAlertsRefresh(prev, new) ==
    LET existingIds == {prev[k].id : k \in DOMAIN prev}
        refreshed == [k \in DOMAIN prev |->
                         IF \E j \in DOMAIN new : new[j].id = prev[k].id
                         THEN new[CHOOSE j \in DOMAIN new : new[j].id = prev[k].id]
                         ELSE prev[k]]
    IN  refreshed \o SelectSeq(new, LAMBDA a : a.id \notin existingIds)

\* variant: the new conditions are appended without the filter
MergeAlertsAppendAll(prev, new) == prev \o new

\* variant: a new alert takes the place of the active alerts of its device
\* and metric
MergeAlertsPerMetric(prev, new) ==
    LET replaced(a) == \E j \in DOMAIN new :
                           /\ new[j].deviceId = a.deviceId
                           /\ new[j].metricType = a.metricType
                           /\ new[j].id # a.id
        kept == SelectSeq(prev, LAMBDA a : ~replaced(a))
        existingIds == {kept[k].id : k \in DOMAIN kept}
    IN  kept \o SelectSeq(new, LAMBDA a : a.id \notin existingIds)

\* the updater handed to setActiveAlerts by the effect
MergeAlerts(prev, new) ==
    LET existingIds == {prev[k].id : k \in DOMAIN prev}
        filteredNew == SelectSeq(new, LAMBDA a : a.id \notin existingIds)
    IN  IF Len(filteredNew) = 0 THEN prev ELSE prev \o filteredNew

\* prev.filter(a => a.id !== id) of handleDismissAlert
RemoveAlert(prev, id) == SelectSeq(prev, LAMBDA a : a.id # id)

\* new Set([...prev, id]) of handleDismissAlert
AddDismissed(prev, id) == prev \cup {id}

ActiveIds == {activeAlerts[k].id : k \in DOMAIN activeAlerts}

(***************************************************************************)
(* State machine                                                           *)
(***************************************************************************)
Init ==
    /\ devices = <<>>
    /\ activeAlerts = <<>>
    /\ dismissedAlertIds = {}
    /\ cpuThreshold = 90
    /\ ramThreshold = 90
    /\ alertDuration = 60
    /\ mounted = FALSE
    /\ effectPending = "none"
    /\ now = 0
    /\ keyCheck = <<>>
    /\ calc = <<>>
    /\ gemini = <<>>

\* The two effects of the first render: the fleet is created and the interval
\* is started; the alert effect of that render sees devices = [] and returns.
Mount ==
    /\ ~mounted
    /\ \E r \in [1..FleetSize -> CreateDraws] :
           devices' = createInitialDevices(FleetSize, r, now)
    /\ mounted' = TRUE
    /\ effectPending' = "timer"
    /\ UNCHANGED <<activeAlerts, dismissedAlertIds, cpuThreshold, ramThreshold,
                   alertDuration, now, keyCheck, calc, gemini>>

\* The interval callback: setDevices(prev => updateDevices(prev)).
Tick ==
    /\ mounted
    /\ effectPending = "none"
    /\ now < MaxTicks
    /\ now' = now + 1
    /\ \E r \in [1..Len(devices) -> UpdateDraws] :
           devices' = updateDevices(devices, r, now')
    /\ effectPending' = "timer"
    /\ UNCHANGED <<activeAlerts, dismissedAlertIds, cpuThreshold, ramThreshold,
                   alertDuration, mounted, keyCheck, calc, gemini>>

\* The alert monitoring effect, run for the latest render.
RunEffect ==
    /\ mounted
    /\ effectPending # "none"
    /\ effectPending' = "none"
    /\ IF Len(devices) = 0
       THEN UNCHANGED activeAlerts
       ELSE LET newAlerts == CollectAlerts(devices, Len(devices), dismissedAlertIds,
                                           cpuThreshold, ramThreshold, alertDuration, now)
            IN  activeAlerts' = MergeAlerts(activeAlerts, newAlerts)
    /\ UNCHANGED <<devices, dismissedAlertIds, cpuThreshold, ramThreshold,
                   alertDuration, mounted, now, keyCheck, calc, gemini>>

\* setCpuThreshold(Number(e.target.value)): the value is stored as typed
setCpuThreshold(v) ==
    /\ mounted
    /\ effectPending = "none"
    /\ cpuThreshold' = v
    /\ effectPending' = (IF v # cpuThreshold THEN "event" ELSE "none")
    /\ UNCHANGED <<devices, activeAlerts, dismissedAlertIds, ramThreshold,
                   alertDuration, mounted, now, keyCheck, calc, gemini>>

\* setRamThreshold(Number(e.target.value))
setRamThreshold(v) ==
    /\ mounted
    /\ effectPending = "none"
    /\ ramThreshold' = v
    /\ effectPending' = (IF v # ramThreshold THEN "event" ELSE "none")
    /\ UNCHANGED <<devices, activeAlerts, dismissedAlertIds, cpuThreshold,
                   alertDuration, mounted, now, keyCheck, calc, gemini>>

\* setAlertDuration(Number(e.target.value))
setAlertDuration(v) ==
    /\ mounted
    /\ effectPending = "none"
    /\ alertDuration' = v
    /\ effectPending' = (IF v # alertDuration THEN "event" ELSE "none")
    /\ UNCHANGED <<devices, activeAlerts, dismissedAlertIds, cpuThreshold,
                   ramThreshold, mounted, now, keyCheck, calc, gemini>>

\* onChange of the CPU threshold input
SetCpuThreshold == \E v \in ThresholdInputs : setCpuThreshold(v)

\* onChange of the RAM threshold input
SetRamThreshold == \E v \in ThresholdInputs : setRamThreshold(v)

\* onChange of the duration input
SetAlertDuration == \E v \in DurationInputs : setAlertDuration(v)

\* handleDismissAlert(id), clicked on the toast of an active alert while no
\* effect is outstanding.
Dismiss ==
    /\ effectPending = "none"
    /\ \E id \in ActiveIds :
           /\ dismissedAlertIds' = AddDismissed(dismissedAlertIds, id)
           /\ activeAlerts' = RemoveAlert(activeAlerts, id)
    /\ effectPending' = "event"
    /\ UNCHANGED <<devices, cpuThreshold, ramThreshold, alertDuration, mounted, now, keyCheck, calc, gemini>>

\* handleDismissAlert(id), clicked while the deferred effect of the tick's
\* render is still outstanding: the effect runs with the dismissed set of that
\* render and its merge is applied after the handler's filter.
DismissBeforeEffect ==
    /\ effectPending = "timer"
    /\ \E id \in ActiveIds :
           LET newAlerts == CollectAlerts(devices, Len(devices), dismissedAlertIds,
                                          cpuThreshold, ramThreshold, alertDuration, now)
           IN  /\ dismissedAlertIds' = AddDismissed(dismissedAlertIds, id)
               /\ activeAlerts' = MergeAlerts(RemoveAlert(activeAlerts, id), newAlerts)
    /\ effectPending' = "event"
    /\ UNCHANGED <<devices, cpuThreshold, ramThreshold, alertDuration, mounted, now, keyCheck, calc, gemini>>

(***************************************************************************)
(* The key format on its own: two (device, metric, threshold, duration)    *)
(* tuples and the keys the effect mints for them.                          *)
(***************************************************************************)
KeyTuples == [deviceId : {"dev-0", "dev-1", "dev-11"}, kind : MetricKinds,
              threshold : {-3, 3, 33, 90}, duration : {-3, 3, 33, 60}]

MintKeys ==
    /\ keyCheck = <<>>
    /\ \E a \in KeyTuples, b \in KeyTuples :
           keyCheck' = [a |-> a, b |-> b,
                        idA |-> AlertId(a.deviceId, a.kind, a.threshold, a.duration),
                        idB |-> AlertId(b.deviceId, b.kind, b.threshold, b.duration)]
    /\ UNCHANGED <<devices, activeAlerts, dismissedAlertIds, cpuThreshold,
                   ramThreshold, alertDuration, mounted, effectPending, now, calc, gemini>>

NextKey == MintKeys

SpecKey == Init /\ [][NextKey]_vars

(***************************************************************************)
(* The window size on its own: pointsNeeded of one duration.  calc holds   *)
(* the argument and the result of a function applied on its own.           *)
(***************************************************************************)
\* durations the duration input can hold, valid and not
WindowDurations == (0 - 9) .. 129

ComputePointsNeeded ==
    /\ calc = <<>>
    /\ \E d \in WindowDurations :
           calc' = [duration |-> d, pointsNeeded |-> PointsNeeded(d)]
    /\ UNCHANGED <<devices, activeAlerts, dismissedAlertIds, cpuThreshold,
                   ramThreshold, alertDuration, mounted, effectPending, now, keyCheck, gemini>>

NextWindow == ComputePointsNeeded

SpecWindow == Init /\ [][NextWindow]_vars

(***************************************************************************)
(* generateMetricPoint on its own: a chain of samples, each derived from   *)
(* the one before, with seeds and drifts from the ends of their ranges.    *)
(***************************************************************************)
\* the ends of Math.random() * 40 + 20, * 50 + 30, * 10 + 60, * 20 + 10
MetricSeedDraws == [cpu : {20, 60}, ram : {30, 80}, disk : {60, 70},
                    network : {10, 30}]
\* the ends of drift(): (Math.random() - 0.5) * 10
MetricDriftDraws == [cpu : {-5, 5}, ram : {-5, 5}, disk : {-5, 5},
                     network : {-5, 5}]

\* generateMetricPoint(undefined)
SeedMetric ==
    /\ calc = <<>>
    /\ \E seed \in MetricSeedDraws, drift \in MetricDriftDraws :
           calc' = generateMetricPoint(NoMetric, seed, drift, now)
    /\ UNCHANGED <<devices, activeAlerts, dismissedAlertIds, cpuThreshold,
                   ramThreshold, alertDuration, mounted, effectPending, now, keyCheck, gemini>>

\* prev?.cpu ?? Math.random() * 40 + 20 draws no seed when prev is given
NoSeed == [cpu |-> 0, ram |-> 0, disk |-> 0, network |-> 0]

\* generateMetricPoint(prev) for the sample produced last
DriftMetric ==
    /\ calc # <<>>
    /\ \E drift \in MetricDriftDraws :
           calc' = generateMetricPoint(calc, NoSeed, drift, now)
    /\ UNCHANGED <<devices, activeAlerts, dismissedAlertIds, cpuThreshold,
                   ramThreshold, alertDuration, mounted, effectPending, now, keyCheck, gemini>>

NextMetric ==
    \/ SeedMetric
    \/ DriftMetric

SpecMetric == Init /\ [][NextMetric]_vars

(***************************************************************************)
(* utils/mockData on its own: a fleet of any size is created and advanced. *)
(* The devices of one call share their draws; calc holds the arguments of  *)
(* the call that made the fleet.                                           *)
(***************************************************************************)
\* the count argument: none, one, two, one more than there are names
FleetCounts == {0, 1, 2, Len(DEVICE_NAMES) + 1}

\* createInitialDevices(count)
CreateFleet ==
    /\ calc = <<>>
    /\ \E count \in FleetCounts, c \in CreateDraws :
           /\ devices' = createInitialDevices(count, [k \in 1..count |-> c], now)
           /\ calc' = [count |-> count, W0 |-> HistoryLen]
    /\ UNCHANGED <<activeAlerts, dismissedAlertIds, cpuThreshold, ramThreshold,
                   alertDuration, mounted, effectPending, now, keyCheck, gemini>>

\* updateDevices(devices)
Advance ==
    /\ calc # <<>>
    /\ now < MaxTicks
    /\ now' = now + 1
    /\ \E u \in UpdateDraws :
           devices' = updateDevices(devices, [k \in 1..Len(devices) |-> u], now')
    /\ UNCHANGED <<activeAlerts, dismissedAlertIds, cpuThreshold, ramThreshold,
                   alertDuration, mounted, effectPending, keyCheck, calc, gemini>>

NextFleet ==
    \/ CreateFleet
    \/ Advance

SpecFleet == Init /\ [][NextFleet]_vars

(***************************************************************************)
(* updateDevices on a device whose history has any length up to the        *)
(* capacity.                                                               *)
(***************************************************************************)
\* a devices argument of updateDevices: one device with w0 samples
StartHistory ==
    /\ calc = <<>>
    /\ \E w0 \in 0..HistoryLen, c \in CreateDraws :
           /\ devices' = <<[createInitialDevices(1, <<c>>, now)[1]
                              EXCEPT !.metrics = InitialMetrics(w0, c, now)]>>
           /\ calc' = [count |-> 1, W0 |-> w0]
    /\ UNCHANGED <<activeAlerts, dismissedAlertIds, cpuThreshold, ramThreshold,
                   alertDuration, mounted, effectPending, now, keyCheck, gemini>>

NextHistory ==
    \/ StartHistory
    \/ Advance

SpecHistory == Init /\ [][NextHistory]_vars

(***************************************************************************)
(* The settings panel on its own: the fleet is created and the operator    *)
(* types values into the three inputs, values outside the ranges the       *)
(* inputs advertise (min, max) included; no tick, no dismissal.            *)
(***************************************************************************)
\* values typed into a threshold input: within [0,100] and above it
ConfigThresholdInputs == {40, 90, 150}
\* values typed into the duration input: negative, zero and the default
ConfigDurationInputs == {-3, 0, 60}

EditCpuThreshold == \E v \in ConfigThresholdInputs : setCpuThreshold(v)

EditRamThreshold == \E v \in ConfigThresholdInputs : setRamThreshold(v)

EditAlertDuration == \E v \in ConfigDurationInputs : setAlertDuration(v)

NextConfig ==
    \/ Mount
    \/ RunEffect
    \/ EditCpuThreshold
    \/ EditRamThreshold
    \/ EditAlertDuration

SpecConfig == Init /\ [][NextConfig]_vars

(***************************************************************************)
(* services/geminiService: one call of getSystemInsights.  calc holds the  *)
(* frame of the call: where it is, its locals, the delays it has slept and *)
(* what it returned.                                                       *)
(***************************************************************************)
maxRetries == 3

baseDelay == 2000

QuotaExhaustedMessage ==
    "QUOTA_EXHAUSTED: System analysis is currently at capacity. Please try again in a few minutes."

UnableMessage ==
    "Unable to generate insights at this moment. Please check network connectivity."

\* response.text of a request that succeeds
ResponseTexts == {"All systems nominal.", ""}

\* what a failed request throws: whether error.message includes '429', and
\* error.status (0 when the error carries none)
ErrorDraws == [mentions429 : BOOLEAN, status : {0, 429, 500}]

\* error?.message?.includes('429') || error?.status === 429
isRateLimit(error) == error.mentions429 \/ error.status = 429

\* variant: the delay grows with the number of retries, not with its power
RetryDelayLinear(retries) == baseDelay * retries

\* baseDelay * Math.pow(2, retries)
RetryDelay(retries) == baseDelay * 2^retries

\* the summary the prompt is built from (Math.round is the identity on the
\* integers of the model)
Summary(devs) ==
    [k \in DOMAIN devs |->
        [name |-> devs[k].name, status |-> devs[k].status,
         cpu |-> IF Len(devs[k].metrics) = 0 THEN 0
                 ELSE devs[k].metrics[Len(devs[k].metrics)].cpu,
         ram |-> IF Len(devs[k].metrics) = 0 THEN 0
                 ELSE devs[k].metrics[Len(devs[k].metrics)].ram]]

\* getSystemInsights(devices) up to the first request
CallGetSystemInsights ==
    /\ calc = <<>>
    /\ \E count \in {0, 1}, c \in CreateDraws :
           calc' = [pc |-> "request",
                    summary |-> Summary(createInitialDevices(count, [k \in 1..count |-> c], now)),
                    retries |-> 0, requests |-> 0, slept |-> <<>>,
                    last |-> [kind |-> "none"], result |-> "none"]
    /\ UNCHANGED <<devices, activeAlerts, dismissedAlertIds, cpuThreshold,
                   ramThreshold, alertDuration, mounted, effectPending, now,
                   keyCheck, gemini>>

\* await ai.models.generateContent(...) settles: return, retry or give up
GenerateContent ==
    /\ calc # <<>>
    /\ calc.pc = "request"
    /\ \/ \E text \in ResponseTexts :
              calc' = [calc EXCEPT !.requests = @ + 1,
                                   !.last = [kind |-> "text", text |-> text],
                                   !.pc = "returned", !.result = text]
       \/ \E error \in ErrorDraws :
              IF isRateLimit(error) /\ calc.retries < maxRetries - 1
              THEN calc' = [calc EXCEPT !.requests = @ + 1,
                                        !.last = [kind |-> "error", error |-> error],
                                        !.retries = @ + 1,
                                        !.slept = Append(@, RetryDelay(calc.retries + 1)),
                                        !.pc = "sleep"]
              ELSE calc' = [calc EXCEPT !.requests = @ + 1,
                                        !.last = [kind |-> "error", error |-> error],
                                        !.pc = "returned",
                                        !.result = IF isRateLimit(error)
                                                   THEN QuotaExhaustedMessage
                                                   ELSE UnableMessage]
    /\ UNCHANGED <<devices, activeAlerts, dismissedAlertIds, cpuThreshold,
                   ramThreshold, alertDuration, mounted, effectPending, now,
                   keyCheck, gemini>>

\* await sleep(delay) is over; continue: the loop condition is tested again
SleepElapsed ==
    /\ calc # <<>>
    /\ calc.pc = "sleep"
    /\ calc' = IF calc.retries < maxRetries
               THEN [calc EXCEPT !.pc = "request"]
               ELSE [calc EXCEPT !.pc = "returned", !.result = "undefined"]
    /\ UNCHANGED <<devices, activeAlerts, dismissedAlertIds, cpuThreshold,
                   ramThreshold, alertDuration, mounted, effectPending, now,
                   keyCheck, gemini>>

NextInsights ==
    \/ CallGetSystemInsights
    \/ GenerateContent
    \/ SleepElapsed

SpecInsights == Init /\ [][NextInsights]_vars

(***************************************************************************)
(* components/GeminiInsights: the panel's state (insight, loading,         *)
(* cooldown), the calls of getSystemInsights it has started and those that *)
(* have not settled yet.  The interval is registered once, by the effect   *)
(* of the first render, with the fetchInsight of that render; the button   *)
(* calls the fetchInsight of the latest render.                            *)
(***************************************************************************)
RestingMessage ==
    "Our AI analyst is currently resting due to high demand. Automatic updates will resume shortly."

\* what a call of getSystemInsights resolves to
InsightResults == {QuotaExhaustedMessage, UnableMessage} \cup ResponseTexts

\* the body of fetchInsight past its guard, up to the await
StartFetch(g) ==
    [g EXCEPT !.loading = TRUE, !.pending = @ + 1, !.started = @ + 1]

\* fetchInsight as a render with the given cooldown defined it
fetchInsight(g, cooldownOfRender) ==
    IF cooldownOfRender > 0 THEN g ELSE StartFetch(g)

\* the first render and its effects: fetchInsight(), setInterval(fetchInsight)
MountInsights ==
    /\ gemini = <<>>
    /\ gemini' = fetchInsight([insight |-> "Analyzing system state...",
                               loading |-> TRUE, cooldown |-> 0,
                               pending |-> 0, started |-> 0], 0)
    /\ UNCHANGED <<devices, activeAlerts, dismissedAlertIds, cpuThreshold,
                   ramThreshold, alertDuration, mounted, effectPending, now,
                   keyCheck, calc>>

\* onClick of the refresh button, which is disabled while loading or cooling
RefreshClick ==
    /\ gemini # <<>>
    /\ ~(gemini.loading \/ gemini.cooldown > 0)
    /\ gemini.started < MaxFetches
    /\ gemini' = fetchInsight(gemini, gemini.cooldown)
    /\ UNCHANGED <<devices, activeAlerts, dismissedAlertIds, cpuThreshold,
                   ramThreshold, alertDuration, mounted, effectPending, now,
                   keyCheck, calc>>

\* the 5 minute interval fires: it holds the fetchInsight of the first
\* render, whose cooldown is the initial 0
IntervalFire ==
    /\ gemini # <<>>
    /\ gemini.started < MaxFetches
    /\ gemini' = fetchInsight(gemini, 0)
    /\ UNCHANGED <<devices, activeAlerts, dismissedAlertIds, cpuThreshold,
                   ramThreshold, alertDuration, mounted, effectPending, now,
                   keyCheck, calc>>

\* await getSystemInsights(devices) resolves: the rest of fetchInsight
InsightSettles ==
    /\ gemini # <<>>
    /\ gemini.pending > 0
    /\ \E result \in InsightResults :
           gemini' = IF result = QuotaExhaustedMessage
                     THEN [gemini EXCEPT !.insight = RestingMessage,
                                         !.cooldown = 60,
                                         !.loading = FALSE, !.pending = @ - 1]
                     ELSE [gemini EXCEPT !.insight = IF result = ""
                                                     THEN "Unable to generate insights at this moment."
                                                     ELSE result,
                                         !.loading = FALSE, !.pending = @ - 1]
    /\ UNCHANGED <<devices, activeAlerts, dismissedAlertIds, cpuThreshold,
                   ramThreshold, alertDuration, mounted, effectPending, now,
                   keyCheck, calc>>

\* the cooldown effect's one second timeout: setCooldown(cooldown - 1)
CooldownSecond ==
    /\ gemini # <<>>
    /\ gemini.cooldown > 0
    /\ gemini' = [gemini EXCEPT !.cooldown = @ - 1]
    /\ UNCHANGED <<devices, activeAlerts, dismissedAlertIds, cpuThreshold,
                   ramThreshold, alertDuration, mounted, effectPending, now,
                   keyCheck, calc>>

NextPanel ==
    \/ MountInsights
    \/ RefreshClick
    \/ IntervalFire
    \/ InsightSettles
    \/ CooldownSecond

SpecPanel == Init /\ [][NextPanel]_vars

Next ==
    \/ Mount
    \/ Tick
    \/ RunEffect
    \/ SetCpuThreshold
    \/ SetRamThreshold
    \/ SetAlertDuration
    \/ Dismiss
    \/ DismissBeforeEffect

Spec == Init /\ [][Next]_vars

(***************************************************************************)
(* Properties                                                              *)
(***************************************************************************)
\* the window size, written out: 1 up to 3 seconds, then a third rounded up
WindowSize == IF alertDuration <= 3 THEN 1 ELSE (alertDuration + 2) \div 3

\* the positions of the trailing window in the history of device i
Window(i) ==
    {k \in DOMAIN devices[i].metrics : k > Len(devices[i].metrics) - WindowSize}

\* what the effect would collect in the current state
EvaluatorOutput ==
    CollectAlerts(devices, Len(devices), dismissedAlertIds, cpuThreshold,
                  ramThreshold, alertDuration, now)

\* the conditions of one kind the evaluator raises for device i
Raised(i, kind) ==
    {k \in DOMAIN EvaluatorOutput :
        /\ EvaluatorOutput[k].deviceId = devices[i].id
        /\ EvaluatorOutput[k].metricType = kind}

CpuSustained(i) == \A k \in Window(i) : devices[i].metrics[k].cpu > cpuThreshold

RamSustained(i) == \A k \in Window(i) : devices[i].metrics[k].ram > ramThreshold

\* the key of a condition, written out
KeyOf(deviceId, kind, threshold, duration) ==
    deviceId \o "-" \o kind \o "-" \o ToString(threshold) \o "-" \o ToString(duration)

CurrentCpuKey(i) == KeyOf(devices[i].id, "CPU", cpuThreshold, alertDuration)

CurrentRamKey(i) == KeyOf(devices[i].id, "RAM", ramThreshold, alertDuration)

\* the effect of the latest render has run
Evaluated == mounted /\ effectPending = "none"

\* a step of the tick, of a configuration edit, of the mount or of the effect
NonDismissStep ==
    \/ now' # now
    \/ mounted' # mounted
    \/ <<cpuThreshold, ramThreshold, alertDuration>>' # <<cpuThreshold, ramThreshold, alertDuration>>
    \/ effectPending # "none" /\ effectPending' = "none"

IsPrefix(s, t) == Len(s) <= Len(t) /\ \A k \in DOMAIN s : s[k] = t[k]

\* C1: for a device with at least pointsNeeded samples the evaluator raises
\* exactly one CPU condition when every sample of the trailing window has cpu
\* strictly above cpuThreshold and the key is not dismissed, and none otherwise;
\* the same for RAM against ramThreshold.
C1_SustainedBreachRaises ==
    \A i \in DOMAIN devices :
        Len(devices[i].metrics) >= WindowSize =>
            /\ Cardinality(Raised(i, "CPU")) =
                  (IF CpuSustained(i) /\ CurrentCpuKey(i) \notin dismissedAlertIds
                   THEN 1 ELSE 0)
            /\ Cardinality(Raised(i, "RAM")) =
                  (IF RamSustained(i) /\ CurrentRamKey(i) \notin dismissedAlertIds
                   THEN 1 ELSE 0)

\* a two-sample window above the threshold has raised its CPU alert
C1_Witness ==
    /\ Evaluated
    /\ alertDuration = 6
    /\ \E i \in DOMAIN devices :
          /\ Cardinality(Raised(i, "CPU")) = 1
          /\ CurrentCpuKey(i) \in ActiveIds

\* C2: the step that dismisses K leaves K out of the active set, and a
\* dismissed key that is out of the active set never enters it again.
C2_DismissDurable ==
    [][\A K \in dismissedAlertIds' :
          /\ K \notin dismissedAlertIds => K \notin ActiveIds'
          /\ (K \in dismissedAlertIds /\ K \notin ActiveIds) => K \notin ActiveIds']_vars

\* C3: an alert leaves the active set only in a step that leaves its key
\* dismissed; the tick, the edits and the effect remove nothing.
C3_NoAutoResolve ==
    [][\A k \in DOMAIN activeAlerts :
          /\ activeAlerts[k].id \in ActiveIds' \/ activeAlerts[k].id \in dismissedAlertIds'
          /\ NonDismissStep => activeAlerts[k].id \in ActiveIds']_vars

\* an alert raised at an earlier tick is active under its own configuration
\* although the latest sample is at or below the threshold
C3_Witness ==
    /\ Evaluated
    /\ \E i \in DOMAIN devices : \E k \in DOMAIN activeAlerts :
          /\ activeAlerts[k].id = CurrentCpuKey(i)
          /\ activeAlerts[k].timestamp < now
          /\ devices[i].metrics[Len(devices[i].metrics)].cpu <= cpuThreshold

\* C4: per key, the dismissed set only grows, a key in the dismissed set is not
\* an active alert, an active key stays active or becomes dismissed, and only
\* an active key becomes dismissed.
C4_KeyLifecycle ==
    [][\A K \in ActiveIds \cup ActiveIds' \cup dismissedAlertIds \cup dismissedAlertIds' :
          /\ K \in dismissedAlertIds => K \in dismissedAlertIds'
          /\ K \in dismissedAlertIds' => K \notin ActiveIds'
          /\ K \in ActiveIds => (K \in ActiveIds' \/ K \in dismissedAlertIds')
          /\ (K \in dismissedAlertIds' /\ K \notin dismissedAlertIds) => K \in ActiveIds]_vars

\* C5: no key is both dismissed and the key of an active alert.
C5_DismissAtomic == dismissedAlertIds \cap ActiveIds = {}

\* C6: the keys of two (device, metric, threshold, duration) tuples are equal
\* exactly when the tuples are equal.
C6_KeyInjective ==
    keyCheck # <<>> => ((keyCheck.idA = keyCheck.idB) <=> (keyCheck.a = keyCheck.b))

\* two tuples that differ in the threshold only have different keys
C6_Witness ==
    /\ keyCheck # <<>>
    /\ keyCheck.a.threshold # keyCheck.b.threshold
    /\ [keyCheck.a EXCEPT !.threshold = 0] = [keyCheck.b EXCEPT !.threshold = 0]
    /\ keyCheck.idA # keyCheck.idB

\* C7: once the effect has run, every condition that qualifies under the
\* configuration in effect and whose own key is not dismissed is an active
\* alert, whatever other keys of the same device and metric are dismissed.
C7_OnlyExactKeySuppressed ==
    Evaluated =>
        \A i \in DOMAIN devices :
            Len(devices[i].metrics) >= WindowSize =>
                /\ (CpuSustained(i) /\ CurrentCpuKey(i) \notin dismissedAlertIds)
                      => CurrentCpuKey(i) \in ActiveIds
                /\ (RamSustained(i) /\ CurrentRamKey(i) \notin dismissedAlertIds)
                      => CurrentRamKey(i) \in ActiveIds

\* the CPU key of another threshold or duration is dismissed and the CPU alert
\* of the configuration in effect is active for the same device
C7_Witness ==
    /\ Evaluated
    /\ \E i \in DOMAIN devices :
          /\ Len(devices[i].metrics) >= WindowSize
          /\ CpuSustained(i)
          /\ CurrentCpuKey(i) \in ActiveIds
          /\ CurrentCpuKey(i) \notin dismissedAlertIds
          /\ \E t \in ThresholdInputs \cup {cpuThreshold} :
             \E d \in DurationInputs \cup {alertDuration} :
                /\ <<t, d>> # <<cpuThreshold, alertDuration>>
                /\ KeyOf(devices[i].id, "CPU", t, d) \in dismissedAlertIds

\* C8: a step of the tick, of an edit or of the effect keeps every active
\* alert as it is and where it is, and only appends.
C8_MergeNoRefresh ==
    [][NonDismissStep => IsPrefix(activeAlerts, activeAlerts')]_vars

\* the effect has run for a condition that still qualifies while the active
\* alert of its key shows another value than the latest sample
C8_Witness ==
    /\ Evaluated
    /\ \E i \in DOMAIN devices : \E k \in DOMAIN activeAlerts :
          /\ activeAlerts[k].id = CurrentCpuKey(i)
          /\ Raised(i, "CPU") # {}
          /\ activeAlerts[k].value # devices[i].metrics[Len(devices[i].metrics)].cpu

\* C9: no two active alerts have the same key.
C9_OneAlertPerKey ==
    \A j \in DOMAIN activeAlerts : \A k \in DOMAIN activeAlerts :
        activeAlerts[j].id = activeAlerts[k].id => j = k

\* the effect has run at a later tick for conditions that are all active already
C9_Witness ==
    /\ Evaluated
    /\ Len(EvaluatorOutput) >= 2
    /\ \A k \in DOMAIN EvaluatorOutput :
          \E j \in DOMAIN activeAlerts :
              /\ activeAlerts[j].id = EvaluatorOutput[k].id
              /\ activeAlerts[j].timestamp < now

\* C10: a device whose history is shorter than pointsNeeded (empty, or fewer
\* samples than a third of the duration) raises no condition.
C10_ShortHistoryNeverAlerts ==
    \A i \in DOMAIN devices :
        (Len(devices[i].metrics) = 0 \/ 3 * Len(devices[i].metrics) < alertDuration) =>
            Raised(i, "CPU") = {} /\ Raised(i, "RAM") = {}

\* the effect has run for a device that is above the CPU threshold in every
\* sample and has too short a history
C10_Witness ==
    /\ Evaluated
    /\ \E i \in DOMAIN devices :
          /\ 3 * Len(devices[i].metrics) < alertDuration
          /\ \A k \in DOMAIN devices[i].metrics : devices[i].metrics[k].cpu > cpuThreshold
          /\ CurrentCpuKey(i) \notin dismissedAlertIds
          /\ CurrentCpuKey(i) \notin ActiveIds

\* C11: pointsNeeded is 1 for a duration of 0 or below, and otherwise the
\* least number of 3 second samples that cover the duration (a duration that
\* is not a multiple of 3 rounds up); 60 seconds give 20.
C11_WindowSize ==
    calc # <<>> =>
        LET d == calc.duration
            p == calc.pointsNeeded
        IN  /\ d <= 0 => p = 1
            /\ d > 0 => (3 * p >= d /\ 3 * (p - 1) < d)
            /\ d = 60 => p = 20

\* a duration one second past a multiple of 3 takes one more sample
C11_Witness ==
    /\ calc # <<>>
    /\ calc.duration = 61
    /\ calc.pointsNeeded = 21

\* the metric an alert of the given kind reports, read from a sample
MetricOf(sample, kind) == IF kind = "CPU" THEN sample.cpu ELSE sample.ram

\* C12: an alert raised by an evaluation of the device list as it is now
\* carries the cpu (for a CPU alert) or the ram (for a RAM alert) of the last
\* sample of its device's history.
C12_ValueIsLatestSample ==
    \A k \in DOMAIN activeAlerts :
        activeAlerts[k].timestamp = now =>
            \E i \in DOMAIN devices :
                /\ devices[i].id = activeAlerts[k].deviceId
                /\ activeAlerts[k].value =
                      MetricOf(devices[i].metrics[Len(devices[i].metrics)],
                               activeAlerts[k].metricType)

\* a CPU alert raised now over a window of two samples that differ
C12_Witness ==
    /\ Evaluated
    /\ alertDuration = 6
    /\ \E k \in DOMAIN activeAlerts : \E i \in DOMAIN devices :
          /\ activeAlerts[k].timestamp = now
          /\ activeAlerts[k].metricType = "CPU"
          /\ activeAlerts[k].deviceId = devices[i].id
          /\ Len(devices[i].metrics) >= 2
          /\ devices[i].metrics[Len(devices[i].metrics)].cpu
                # devices[i].metrics[Len(devices[i].metrics) - 1].cpu
          /\ activeAlerts[k].value = devices[i].metrics[Len(devices[i].metrics)].cpu

\* C13: every sample generateMetricPoint produces, seeded or derived from the
\* sample before it, has cpu, ram, disk and network within [0,100].
C13_Clamped ==
    calc # <<>> =>
        /\ 0 <= calc.cpu /\ calc.cpu <= 100
        /\ 0 <= calc.ram /\ calc.ram <= 100
        /\ 0 <= calc.disk /\ calc.disk <= 100
        /\ 0 <= calc.network /\ calc.network <= 100

\* a sample held at the ceiling in one field and at the floor in another
C13_Witness ==
    /\ calc # <<>>
    /\ calc.cpu = 100
    /\ calc.network = 0

\* C14: every device of a created fleet holds exactly HistoryLen samples (the
\* 20 of the source, scaled) after creation and after every updateDevices
\* call, and a call drops the oldest sample, keeps the others in order and
\* puts the sample it generated last.
C14_HistoryWindow ==
    [][\A i \in DOMAIN devices' :
          /\ Len(devices'[i].metrics) = HistoryLen
          /\ now' # now =>
                /\ SubSeq(devices'[i].metrics, 1, HistoryLen - 1)
                      = SubSeq(devices[i].metrics, 2, HistoryLen)
                /\ devices'[i].metrics[HistoryLen].timestamp = now']_vars

\* a fleet was advanced: the last sample of a device is this call's, the one
\* before it is older
C14_Witness ==
    /\ calc # <<>>
    /\ now >= 1
    /\ Len(devices) >= 2
    /\ Len(devices[2].metrics) = HistoryLen
    /\ devices[2].metrics[HistoryLen].timestamp = now
    /\ devices[2].metrics[HistoryLen - 1].timestamp < now

\* C15: for a device that starts with W0 samples the history holds
\* min(t + W0, HistoryLen) samples after t updateDevices calls.
C15_HistoryBound ==
    calc # <<>> =>
        \A i \in DOMAIN devices :
            Len(devices[i].metrics) = Min(now + calc.W0, HistoryLen)

\* C16: createInitialDevices(count) returns count devices with pairwise
\* distinct ids, and updateDevices keeps the number of devices, their order and
\* the id, name, type, location and ip of each.
C16_FleetIdentity ==
    [][/\ calc' # <<>> =>
             /\ Len(devices') = calc'.count
             /\ \A i \in DOMAIN devices' : \A j \in DOMAIN devices' :
                    devices'[i].id = devices'[j].id => i = j
       /\ calc # <<>> =>
             /\ Len(devices') = Len(devices)
             /\ \A i \in DOMAIN devices :
                    /\ devices'[i].id = devices[i].id
                    /\ devices'[i].name = devices[i].name
                    /\ devices'[i].type = devices[i].type
                    /\ devices'[i].location = devices[i].location
                    /\ devices'[i].ip = devices[i].ip]_vars

\* a fleet of one more device than there are names was advanced: the last
\* device has the name of the first and another id
C16_Witness ==
    /\ calc # <<>>
    /\ calc.count = Len(DEVICE_NAMES) + 1
    /\ Len(devices) = calc.count
    /\ now >= 1
    /\ devices[Len(devices)].name = devices[1].name
    /\ devices[Len(devices)].id # devices[1].id
    /\ devices[1].lastUpdate = now

\* C17: wherever a fleet can be advanced, an updateDevices call can leave its
\* first device in WARNING, one can leave it in ERROR and one can leave it in
\* OFFLINE, and one can leave a device that is not ONLINE in ONLINE.
C17_StatusesReachable ==
    (calc # <<>> /\ Len(devices) > 0 /\ now < MaxTicks) =>
        /\ ENABLED (Advance /\ devices'[1].status = DeviceStatus.WARNING)
        /\ ENABLED (Advance /\ devices'[1].status = DeviceStatus.ERROR)
        /\ ENABLED (Advance /\ devices'[1].status = DeviceStatus.OFFLINE)
        /\ devices[1].status # DeviceStatus.ONLINE =>
               ENABLED (Advance /\ devices'[1].status = DeviceStatus.ONLINE)

\* C18: the configuration in effect is always valid: the duration is
\* positive and both thresholds are within [0,100]; an edit to another value
\* is not applied.
C18_ConfigValidated ==
    /\ alertDuration > 0
    /\ 0 <= cpuThreshold /\ cpuThreshold <= 100
    /\ 0 <= ramThreshold /\ ramThreshold <= 100

\* C19: an alert enters the active set only in the evaluation of a device
\* list the tick (or the creation of the fleet) produced, never in an
\* evaluation that follows a threshold or duration edit without a tick.
C19_EditWaitsForTick ==
    [][ActiveIds' \subseteq ActiveIds \/ effectPending = "timer"]_vars

\* C20: a device list the tick produced is never seen with alerts not yet
\* reconciled against it: whenever the latest change is not an operator's
\* edit or dismissal, every condition that qualifies is an active alert.
C20_TickAtomic ==
    (mounted /\ effectPending # "event") =>
        \A k \in DOMAIN EvaluatorOutput : EvaluatorOutput[k].id \in ActiveIds

\* the four values of DeviceStatus
StatusValues == {DeviceStatus.ONLINE, DeviceStatus.OFFLINE,
                 DeviceStatus.WARNING, DeviceStatus.ERROR}

\* a device list with every status replaced by s
WithStatus(devs, s) == [k \in DOMAIN devs |-> [devs[k] EXCEPT !.status = s]]

\* the statuses a tick can leave a device of status s in, written out
NextStatuses(s) ==
    {s, DeviceStatus.WARNING}
        \cup (IF s # DeviceStatus.ONLINE THEN {DeviceStatus.ONLINE} ELSE {})

\* C21: the evaluation raises the same alerts for the device list as it is and
\* for the same list with every status replaced by any other, and the
\* statuses a tick can leave a device in are decided by its status alone,
\* whatever its samples are.
C21_StatusIndependent ==
    mounted =>
        /\ \A s \in StatusValues :
               CollectAlerts(WithStatus(devices, s), Len(devices), dismissedAlertIds,
                             cpuThreshold, ramThreshold, alertDuration, now)
                   = EvaluatorOutput
        /\ (effectPending = "none" /\ now < MaxTicks) =>
               \A i \in DOMAIN devices : \A s \in StatusValues :
                   (ENABLED (Tick /\ devices'[i].status = s))
                       <=> s \in NextStatuses(devices[i].status)

\* a device is ONLINE while its CPU alert is active and its window is above
\* the threshold
C21_Witness ==
    /\ Evaluated
    /\ \E i \in DOMAIN devices :
          /\ devices[i].status = DeviceStatus.ONLINE
          /\ Len(devices[i].metrics) >= WindowSize
          /\ CpuSustained(i)
          /\ CurrentCpuKey(i) \in ActiveIds

\* C22: a call of getSystemInsights makes at most 3 requests; it sleeps only
\* after a rate-limit error, 4000 ms before the second request and 8000 ms
\* before the third; it returns the response text after a success, the
\* QUOTA_EXHAUSTED message after a third rate-limit error and the generic
\* message right after any other error; until it has returned it can go on.
C22_BoundedRetries ==
    calc # <<>> =>
        /\ calc.requests <= 3
        /\ calc.slept \in {<<>>, <<4000>>, <<4000, 8000>>}
        /\ calc.requests = Len(calc.slept) + (IF calc.pc = "returned" THEN 1 ELSE 0)
        /\ calc.pc = "sleep" =>
               /\ calc.last.kind = "error"
               /\ calc.last.error.mentions429 \/ calc.last.error.status = 429
        /\ calc.pc = "returned" =>
               /\ calc.last.kind = "text" => calc.result = calc.last.text
               /\ calc.last.kind = "error" =>
                      IF calc.last.error.mentions429 \/ calc.last.error.status = 429
                      THEN /\ calc.requests = 3
                           /\ calc.result = QuotaExhaustedMessage
                      ELSE calc.result = UnableMessage
        /\ calc.pc # "returned" => ENABLED NextInsights

\* three rate-limit errors in a row: two sleeps, then the quota message
C22_Witness ==
    /\ calc # <<>>
    /\ calc.pc = "returned"
    /\ calc.requests = 3
    /\ calc.slept = <<4000, 8000>>
    /\ calc.result = QuotaExhaustedMessage

\* C23: the cooldown changes only by being set to 60 or by going down by 1,
\* it never goes below 0, and no call of getSystemInsights is started while
\* the cooldown is greater than 0, by the button or by the interval.
C23_CooldownBlocksFetch ==
    [][gemini # <<>> =>
          /\ gemini'.cooldown \in {gemini.cooldown, gemini.cooldown - 1, 60}
          /\ gemini'.cooldown >= 0
          /\ gemini'.started > gemini.started => gemini.cooldown = 0]_vars

\* C24: every history stays at HistoryLen samples, and while a duration of
\* more than 3 seconds per sample of the history is in effect no step adds an
\* alert to the active set.
C24_LongDurationNeverAlerts ==
    [][/\ \A i \in DOMAIN devices' : Len(devices'[i].metrics) = HistoryLen
       /\ alertDuration > 3 * HistoryLen => ActiveIds' \subseteq ActiveIds]_vars

\* after a tick, under a duration longer than the history, the evaluation has
\* run for a device whose every sample is above the CPU threshold, and its
\* alert is not there
C24_Witness ==
    /\ Evaluated
    /\ now >= 1
    /\ alertDuration > 3 * HistoryLen
    /\ \E i \in DOMAIN devices :
          /\ Len(devices[i].metrics) = HistoryLen
          /\ \A k \in DOMAIN devices[i].metrics :
                 /\ devices[i].metrics[k].cpu > cpuThreshold
                 /\ devices[i].metrics[k].timestamp >= 1
          /\ CurrentCpuKey(i) \notin ActiveIds \cup dismissedAlertIds

\* C25: a threshold or duration edit leaves the active set as it is, and a
\* step takes at most one alert out of the active set, whose key it leaves
\* dismissed; every other alert stays.
C25_EditKeepsAlerts ==
    [][/\ <<cpuThreshold, ramThreshold, alertDuration>>'
              # <<cpuThreshold, ramThreshold, alertDuration>>
           => activeAlerts' = activeAlerts
       /\ Cardinality(ActiveIds \ ActiveIds') <= 1
       /\ (ActiveIds \ ActiveIds') \subseteq dismissedAlertIds']_vars

\* two CPU alerts of one device are active together: one under the
\* configuration in effect, one raised under an earlier configuration
C25_Witness ==
    /\ Evaluated
    /\ \E j \in DOMAIN activeAlerts : \E k \in DOMAIN activeAlerts :
       \E i \in DOMAIN devices :
          /\ activeAlerts[j].deviceId = devices[i].id
          /\ activeAlerts[k].deviceId = devices[i].id
          /\ activeAlerts[j].metricType = "CPU"
          /\ activeAlerts[k].metricType = "CPU"
          /\ activeAlerts[j].id = CurrentCpuKey(i)
          /\ activeAlerts[k].id # CurrentCpuKey(i)

====
